---- MODULE Spec2Model ----
(***************************************************************************)
(* bbloker-go: the detection pipeline (Analyze), the rule manager and its  *)
(* refresh loop, the fixed-window rate limiter and the telemetry client,   *)
(* with the three background goroutines and the shared shutdown channel.   *)
(*                                                                         *)
(* Strings are sequences of one-character strings.  Header-pattern weights *)
(* and scores are counted in hundredths (0.3 is 30).  Times are milliseconds on *)
(* a small clock.                                                          *)
(***************************************************************************)
EXTENDS Integers, Sequences, FiniteSets, TLC

\* ------------------------------------------------------------------------
\* Bounds of the model
\* ------------------------------------------------------------------------
MaxCalls == 3         \* requests handled in one behaviour
MaxClock == 2         \* the clock runs 0..MaxClock
MaxPush == 4          \* telemetry push calls in one behaviour

\* ------------------------------------------------------------------------
\* Configuration (Config, scaled down from its defaults)
\* ------------------------------------------------------------------------
RateLimit == 2        \* Config.RateLimit, rateLimiter.maxRequests
RateLimitWindow == 2  \* Config.RateLimitWindow in ms, rateLimiter.windowMs
BufferSize == 2       \* Config.BufferSize, telemetryClient.maxBuffer

\* a header that is not set
NoHeader == <<>>

\* the request-handling goroutines in flight at once
Handlers == {1, 2}

\* ------------------------------------------------------------------------
\* strings.ToLower, strings.Contains
\* ------------------------------------------------------------------------
ToLowerCh(c) ==
  CASE c = "A" -> "a"
    [] c = "B" -> "b"
    [] c = "C" -> "c"
    [] OTHER -> c

ToLower(s) == [i \in 1..Len(s) |-> ToLowerCh(s[i])]

Contains(s, sub) ==
  \E k \in 0..(Len(s) - Len(sub)) :
    \A i \in 1..Len(sub) : s[k + i] = sub[i]

\* ------------------------------------------------------------------------
\* ip.go: an address string is the sequence of its dot-separated parts, each
\* a decimal number (of any size and sign) or text that is no number.
\* ------------------------------------------------------------------------
Pow2(n) == 2 ^ n

\* a part that does not start with a decimal number ("x", "")
NotANumber == -1000

\* var octet int; fmt.Sscanf(p, "%d", &octet): the number read, and the zero
\* value when the scan fails (its error is dropped)
Sscanf(p) == IF p = NotANumber THEN 0 ELSE p

\* strings.SplitN(ip, ".", 4): at most four parts; of a longer address the
\* fourth part is the rest ("4.5"), of which Sscanf reads the leading number
SplitN(ip) == IF Len(ip) > 4 THEN SubSeq(ip, 1, 4) ELSE ip

\* ipToUint32: the 32-bit value as its four octets, most significant first;
\* the value 0 stands for "unparsable"
Zero32 == <<0, 0, 0, 0>>

ipToUint32(ip) ==
  LET parts == SplitN(ip)
  IN IF Len(parts) # 4 THEN Zero32
     ELSE IF \E i \in 1..4 : Sscanf(parts[i]) < 0 \/ Sscanf(parts[i]) > 255 THEN Zero32
     ELSE [i \in 1..4 |-> Sscanf(parts[i])]

\* bits of octet i (1..4) that the mask 0xFFFFFFFF << (32 - bits) keeps
MaskBits(bits, i) ==
  LET k == bits - 8 * (i - 1) IN IF k < 0 THEN 0 ELSE IF k > 8 THEN 8 ELSE k

\* (v & mask), octet by octet
AndMask(v, bits) ==
  [i \in 1..4 |-> (v[i] \div Pow2(8 - MaskBits(bits, i))) * Pow2(8 - MaskBits(bits, i))]

\* a blocked entry is [ip, slash, bits]: "ip/bits" when slash, else "ip"
cidrContains(cidr, ip) ==
  IF ~cidr.slash THEN cidr.ip = ip
  ELSE LET cidrIP == ipToUint32(cidr.ip)
           targetIP == ipToUint32(ip)
           bits == Sscanf(cidr.bits)
       IN IF cidrIP = Zero32 \/ targetIP = Zero32 THEN FALSE
          ELSE IF bits < 0 \/ bits > 32 THEN FALSE
          ELSE AndMask(cidrIP, bits) = AndMask(targetIP, bits)

\* extractIP: X-Forwarded-For (first entry), X-Real-IP, RemoteAddr
extractIP(r) ==
  IF r.xff # <<>> THEN r.xff[1]
  ELSE IF r.xri # NoHeader THEN r.xri
  ELSE r.remoteAddr

\* ------------------------------------------------------------------------
\* regexp.Compile / MatchString over the header values of the model: a
\* compiled expression is the set of values it matches; NilRe is the nil
\* *regexp.Regexp a compile error leaves.
\* ------------------------------------------------------------------------
HeaderValues == {"", "*/*", "en"}

Re(lang) == [nil |-> FALSE, lang |-> lang]
NilRe == [nil |-> TRUE, lang |-> {}]

Compile(pattern) ==
  CASE pattern = "^$" -> Re({""})
    [] pattern = "^\\*\\/\\*$" -> Re({"*/*"})
    [] pattern = "." -> Re(HeaderValues \ {""})
    [] pattern = "(" -> NilRe
    [] OTHER -> NilRe

MatchString(re, val) == val \in re.lang

\* ------------------------------------------------------------------------
\* RuleSet, defaultRules and the rule sets the remote endpoint serves
\* ------------------------------------------------------------------------
HP(n, p, w) == [Name |-> n, Pattern |-> p, Weight |-> w]
Cidr(ip, bits) == [ip |-> ip, slash |-> TRUE, bits |-> bits]
Exact(ip) == [ip |-> ip, slash |-> FALSE, bits |-> 0]

defaultRules ==
  [Version |-> 1,
   BlockedUAs |-> << <<"A", "b">> >>,
   BlockedIPs |-> << Cidr(<<20, 15, 240, 0>>, 20) >>,
   HeaderPatterns |-> << HP("accept", "^\\*\\/\\*$", 30),
                         HP("accept-language", "^$", 50),
                         HP("accept-encoding", "^$", 40) >>,
   AnomalyThreshold |-> 70]

\* var rs RuleSet
NoRules ==
  [Version |-> 0,
   BlockedUAs |-> <<>>,
   BlockedIPs |-> <<>>,
   HeaderPatterns |-> <<>>,
   AnomalyThreshold |-> 0]

Served ==
  { NoRules,
    [Version |-> 1,
     BlockedUAs |-> << <<"c">> >>,
     BlockedIPs |-> << Exact(<<10, 0, 0, 1>>) >>,
     HeaderPatterns |-> << HP("accept", ".", 90) >>,
     AnomalyThreshold |-> 10],
    [Version |-> 2,
     BlockedUAs |-> << <<"B", "C">>, <<"a", "A">> >>,
     BlockedIPs |-> << Exact(<<10, 0, 0, 1>>), Cidr(<<20, 15, 0, 0>>, 16) >>,
     HeaderPatterns |-> << HP("accept", "(", 90),
                           HP("accept-language", "^$", 80),
                           HP("Accept", ".", 90) >>,
     AnomalyThreshold |-> 70],
    [Version |-> 3,
     BlockedUAs |-> << <<"C">> >>,
     BlockedIPs |-> <<>>,
     HeaderPatterns |-> << HP("accept", "^\\*\\/\\*$", 30),
                           HP("accept-encoding", "^$", 40) >>,
     AnomalyThreshold |-> 60] }

\* the derived caches applyRules builds; and the loop over the patterns
\* left (break) at the first that does not compile
LowerAll(uas) == [i \in 1..Len(uas) |-> ToLower(uas[i])]
CompileAllAbort(hps) ==
  [i \in 1..Len(hps) |->
     IF \E j \in 1..i : Compile(hps[j].Pattern).nil THEN NilRe ELSE Compile(hps[i].Pattern)]
CompileAll(hps) == [i \in 1..Len(hps) |-> Compile(hps[i].Pattern)]

\* ------------------------------------------------------------------------
\* Requests (the normalized request view Analyze reads); the header map has
\* the lower-cased names of the headers the request carries
\* ------------------------------------------------------------------------
Hdr(a, al, ae) ==
  [n \in {"accept", "accept-language", "accept-encoding"} |->
     CASE n = "accept" -> a [] n = "accept-language" -> al [] OTHER -> ae]

\* headers[name]: the value, and "" for a key the map does not hold
Get(headers, name) == IF name \in DOMAIN headers THEN headers[name] ELSE ""

Req(ua, xff, xri, remote, hdr) ==
  [ua |-> ua, xff |-> xff, xri |-> xri, remoteAddr |-> remote, headers |-> hdr]

Requests ==
  { Req(<<"x", "a", "B">>, <<>>, NoHeader, <<9, 9, 9, 9>>, Hdr("en", "en", "en")),
    Req(<<"b", "c">>, << <<20, 15, 241, 7>>, <<9, 9, 9, 9>> >>, NoHeader, <<10, 0, 0, 1>>,
        Hdr("en", "en", "en")),
    Req(<<"x">>, <<>>, <<10, 0, 0, 1>>, <<9, 9, 9, 9>>,
        [n \in {"accept", "accept-encoding"} |-> Hdr("*/*", "", "en")[n]]),
    Req(<<"x">>, <<>>, NoHeader, <<9, 9, 9, 9>>, Hdr("*/*", "en", "")),
    Req(<<"x">>, <<>>, NoHeader, <<9, 9, 9, 9>>, Hdr("en", "en", "en")) }

NoReq == Req(<<>>, <<>>, NoHeader, <<>>, Hdr("", "", ""))

Keys == {extractIP(r) : r \in Requests}

\* Decision
Decision(a, r, c) == [Action |-> a, Reason |-> r, Confidence |-> c]
NoDecision == Decision("", "", 0)

\* window{count, resetAt}; NoWindow is a key absent from the map
Window(c, t) == [count |-> c, resetAt |-> t]
NoWindow == Window(0, 0)

\* history of one Analyze call: the RuleSet each matcher read, and what
\* isExceeded read, wrote and returned (ref: what it returns when cleanup
\* never runs)
NoCall == [called |-> FALSE, now |-> 0, before |-> NoWindow, after |-> NoWindow,
           res |-> FALSE, ref |-> FALSE]
NoObs == [ua |-> NoRules, ip |-> NoRules, rl |-> NoCall, score |-> NoRules,
          thr |-> NoRules]

\* history of one Handler call after Analyze: calls of next.ServeHTTP, the
\* Decision handed to OnBlock, the status written, the fingerprint built
Out(n, d, st, fp) == [next |-> n, onBlock |-> d, status |-> st, fp |-> fp]
NoOut == Out(0, NoDecision, 0, 0)

\* cidrContains called on its own: no entry, no address
NoEntry == [ip |-> <<>>, slash |-> FALSE, bits |-> 0]
NoAddr == <<>>

VARIABLES
  \* ruleManager
  current,      \* rm.current
  uaLower,      \* rm.uaLower
  headerRe,     \* rm.headerRe
  rmMu,         \* rm.mu: "free", or "w" while applyRules holds the write lock
  \* the rule-refresh goroutine
  syncPc,       \* "fetch", "readver", "apply", "locked", "locked2", "select", "stopped"
  syncRs,       \* the RuleSet syncOnce decoded
  syncRes,      \* how the last fetch ended: "none", "err", "status", "decode", "ok"
  syncTick,     \* the sync ticker: "none" before NewTicker, "idle", "ready"
  \* rateLimiter
  clock,        \* time.Now().UnixMilli()
  windows,      \* rl.windows
  winLog,       \* history: per key, the results returned since its window was created
  shadow,       \* history: rl.windows as the same calls leave it when cleanup never runs
  \* request handlers running Analyze
  hpc,          \* "idle", "ua", "ip", "now", "rl", "score", "thr", "done", "resp"
  hreq,         \* the request
  hnow,         \* isExceeded's now
  hscore,       \* Analyze's score
  hdec,         \* the Decision returned
  hobs,         \* history: what each check of the call read
  nCalls,       \* requests started
  \* the rate-limiter cleanup goroutine
  cleanPc,      \* "select", "sweep", "stopped"
  cleanNow,     \* cleanup's now
  cleanTick,    \* the cleanup ticker: "idle", "ready"
  \* telemetryClient
  enabled,      \* tc.enabled
  buffer,       \* tc.buffer
  tcMu,         \* tc.mu: "free", or the flush that holds it: "timer", "detached", "close"
  nPush,        \* push calls so far; the k-th call carries fingerprint k
  timerPc,      \* the flush goroutine: "none", "select", "swap", "locked", "send", "stopped"
  timerBatch,   \* its flush's batch
  flushTick,    \* the flush ticker: "none", "idle", "ready"
  dSwap,        \* detached flushes (go tc.flush()) that have not taken tc.mu yet
  dSend,        \* batches of detached flushes that are sending
  swapLog,      \* history: the batches swapped out, in order
  outbox,       \* history: the requests handed to http.DefaultClient.Do
  \* shutdown
  closePc,      \* Close: "idle", "swap", "locked", "send", "returned"
  closeBatch,   \* the batch of Close's flush
  done,         \* the done channel is closed
  \* the middleware (Handler)
  OnBlock,      \* b.config.OnBlock != nil
  hout,         \* history: what the handler did with the decision, and its fingerprint
  nSpawn,       \* fingerprints built so far; the k-th is fingerprint k
  goPush,       \* fingerprints whose go b.telemetry.push(fp) has not run yet
  owed,         \* history: the fingerprints of the handlers that had returned when Close was called
  \* cidrContains called on its own
  cidrPc,       \* "idle", "call", "ret"
  cidrArg,      \* the blocked entry
  ipArg,        \* the address
  cidrRes       \* the result

ruleVars == <<current, uaLower, headerRe, rmMu>>
syncVars == <<syncPc, syncRs, syncRes, syncTick>>
limVars == <<clock, windows, winLog, shadow>>
handlerVars == <<hpc, hreq, hnow, hscore, hdec, hobs, nCalls>>
cleanVars == <<cleanPc, cleanNow, cleanTick>>
telVars == <<enabled, buffer, tcMu, nPush, timerPc, timerBatch, flushTick, dSwap, dSend,
             swapLog, outbox>>
closeVars == <<closePc, closeBatch, done>>
mwVars == <<OnBlock, hout, nSpawn, goPush, owed>>
cidrVars == <<cidrPc, cidrArg, ipArg, cidrRes>>
vars == <<ruleVars, syncVars, limVars, handlerVars, cleanVars, telVars, closeVars,
          mwVars, cidrVars>>

\* ------------------------------------------------------------------------
\* New(): newRuleManager applies defaultRules and starts the refresh
\* goroutine, which is in its first syncOnce
\* ------------------------------------------------------------------------
Init ==
  /\ current = defaultRules
  /\ uaLower = LowerAll(defaultRules.BlockedUAs)
  /\ headerRe = CompileAll(defaultRules.HeaderPatterns)
  /\ rmMu = "free"
  /\ syncPc = "fetch"
  /\ syncRs = NoRules
  /\ syncRes = "none"
  /\ syncTick = "none"
  /\ clock = 0
  /\ windows = [k \in Keys |-> NoWindow]
  /\ winLog = [k \in Keys |-> <<>>]
  /\ shadow = [k \in Keys |-> NoWindow]
  /\ hpc = [h \in Handlers |-> "idle"]
  /\ hreq = [h \in Handlers |-> NoReq]
  /\ hnow = [h \in Handlers |-> 0]
  /\ hscore = [h \in Handlers |-> 0]
  /\ hdec = [h \in Handlers |-> NoDecision]
  /\ hobs = [h \in Handlers |-> NoObs]
  /\ nCalls = 0
  /\ cleanPc = "select"
  /\ cleanNow = 0
  /\ cleanTick = "idle"
  /\ enabled \in BOOLEAN
  /\ buffer = <<>>
  /\ tcMu = "free"
  /\ nPush = 0
  /\ timerPc = IF enabled THEN "select" ELSE "none"
  /\ timerBatch = <<>>
  /\ flushTick = IF enabled THEN "idle" ELSE "none"
  /\ dSwap = 0
  /\ dSend = {}
  /\ swapLog = <<>>
  /\ outbox = <<>>
  /\ closePc = "idle"
  /\ closeBatch = <<>>
  /\ done = FALSE
  /\ OnBlock \in BOOLEAN
  /\ hout = [h \in Handlers |-> NoOut]
  /\ nSpawn = 0
  /\ goPush = {}
  /\ owed = {}
  /\ cidrPc = "idle"
  /\ cidrArg = NoEntry
  /\ ipArg = NoAddr
  /\ cidrRes = FALSE

\* ------------------------------------------------------------------------
\* ruleManager: syncOnce and applyRules, run by the refresh goroutine
\* ------------------------------------------------------------------------
\* a matcher that reads without the lock
RLockSkipped == TRUE

\* rm.mu.RLock(): a reader enters only while no writer holds the lock
RLock == rmMu = "free"

\* syncOnce returns to the loop of newRuleManager; the first return passes
\* time.NewTicker
SyncReturn ==
  /\ syncPc' = "select"
  /\ syncTick' = IF syncTick = "none" THEN "idle" ELSE syncTick

\* a failed fetch that falls back to the defaults
SyncFetchFailReset(kind) ==
  /\ syncPc = "fetch"
  /\ syncRes' = kind
  /\ SyncReturn
  /\ current' = defaultRules
  /\ uaLower' = LowerAll(defaultRules.BlockedUAs)
  /\ headerRe' = CompileAll(defaultRules.HeaderPatterns)
  /\ UNCHANGED <<rmMu, syncRs, limVars, handlerVars, cleanVars, telVars, closeVars,
                 mwVars, cidrVars>>

\* transport error, non-200 status or undecodable body: syncOnce returns
SyncFetchFail(kind) ==
  /\ syncPc = "fetch"
  /\ syncRes' = kind
  /\ SyncReturn
  /\ UNCHANGED <<ruleVars, syncRs, limVars, handlerVars, cleanVars, telVars, closeVars,
                 mwVars, cidrVars>>

\* 200 and a body that decodes to rs
SyncFetchOK(rs) ==
  /\ syncPc = "fetch"
  /\ syncRes' = "ok"
  /\ syncRs' = rs
  /\ syncPc' = "readver"
  /\ UNCHANGED <<ruleVars, syncTick, limVars, handlerVars, cleanVars, telVars, closeVars,
                 mwVars, cidrVars>>

\* the comparison with >= in place of >
newerOrSame(rs, currentVersion) == rs.Version >= currentVersion

\* if rs.Version > currentVersion
newer(rs, currentVersion) == rs.Version > currentVersion

\* currentVersion := rm.current.Version under RLock, then the comparison
SyncReadVersion ==
  /\ syncPc = "readver"
  /\ RLock
  /\ IF newer(syncRs, current.Version)
       THEN syncPc' = "apply" /\ UNCHANGED syncTick
       ELSE SyncReturn
  /\ UNCHANGED <<ruleVars, syncRs, syncRes, limVars, handlerVars, cleanVars, telVars, closeVars,
                 mwVars, cidrVars>>

\* applyRules: rm.mu.Lock(); rm.current = rs
ApplyLock ==
  /\ syncPc = "apply"
  /\ rmMu = "free"
  /\ rmMu' = "w"
  /\ current' = syncRs
  /\ syncPc' = "locked"
  /\ UNCHANGED <<uaLower, headerRe, syncRs, syncRes, syncTick, limVars, handlerVars, cleanVars, telVars, closeVars,
                 mwVars, cidrVars>>

\* rm.uaLower = lower
ApplySetUaLower ==
  /\ syncPc = "locked"
  /\ uaLower' = LowerAll(syncRs.BlockedUAs)
  /\ syncPc' = "locked2"
  /\ UNCHANGED <<current, headerRe, rmMu, syncRs, syncRes, syncTick, limVars, handlerVars, cleanVars, telVars, closeVars,
                 mwVars, cidrVars>>

\* rm.headerRe = compiled; rm.mu.Unlock(); applyRules and syncOnce return
ApplyUnlock ==
  /\ syncPc = "locked2"
  /\ headerRe' = CompileAll(syncRs.HeaderPatterns)
  /\ rmMu' = "free"
  /\ SyncReturn
  /\ UNCHANGED <<current, uaLower, syncRs, syncRes, limVars, handlerVars, cleanVars, telVars, closeVars,
                 mwVars, cidrVars>>

\* the ticker delivers a tick (its channel holds one)
SyncTickerFire ==
  /\ syncTick = "idle"
  /\ syncPc # "stopped"
  /\ syncTick' = "ready"
  /\ UNCHANGED <<ruleVars, syncPc, syncRs, syncRes, limVars, handlerVars, cleanVars, telVars, closeVars,
                 mwVars, cidrVars>>

\* select: case <-ticker.C: rm.syncOnce()
SyncSelectTick ==
  /\ syncPc = "select"
  /\ syncTick = "ready"
  /\ syncTick' = "idle"
  /\ syncPc' = "fetch"
  /\ UNCHANGED <<ruleVars, syncRs, syncRes, limVars, handlerVars, cleanVars, telVars, closeVars,
                 mwVars, cidrVars>>

\* a break that leaves the select and not the loop
SyncSelectDoneBreak ==
  /\ syncPc = "select"
  /\ done
  /\ UNCHANGED vars

\* select: case <-done: return
SyncSelectDone ==
  /\ syncPc = "select"
  /\ done
  /\ syncPc' = "stopped"
  /\ UNCHANGED <<ruleVars, syncRs, syncRes, syncTick, limVars, handlerVars, cleanVars, telVars, closeVars,
                 mwVars, cidrVars>>

\* ------------------------------------------------------------------------
\* ruleManager: the matchers
\* ------------------------------------------------------------------------
isBlockedUA(ua) ==
  \E i \in 1..Len(uaLower) : Contains(ToLower(ua), uaLower[i])

isBlockedIP(ip) ==
  \E i \in 1..Len(current.BlockedIPs) : cidrContains(current.BlockedIPs[i], ip)

RECURSIVE ScoreFrom(_, _)
ScoreFrom(headers, i) ==
  IF i > Len(current.HeaderPatterns) THEN 0
  ELSE (IF ~headerRe[i].nil
           /\ MatchString(headerRe[i], Get(headers, current.HeaderPatterns[i].Name))
        THEN current.HeaderPatterns[i].Weight ELSE 0)
       + ScoreFrom(headers, i + 1)

headerAnomalyScore(headers) == ScoreFrom(headers, 1)

anomalyThreshold == current.AnomalyThreshold

\* ------------------------------------------------------------------------
\* rateLimiter.isExceeded: the body under rl.mu, with the now it read before
\* ------------------------------------------------------------------------
Expired(w, now) == w = NoWindow \/ now >= w.resetAt

\* the window a call leaves; and, first, a request over the limit left
\* uncounted
isExceededWindowCapped(w, now) ==
  IF Expired(w, now) THEN Window(1, now + RateLimitWindow)
  ELSE IF w.count >= RateLimit THEN w ELSE Window(w.count + 1, w.resetAt)

isExceededWindow(w, now) ==
  IF Expired(w, now) THEN Window(1, now + RateLimitWindow)
  ELSE Window(w.count + 1, w.resetAt)

\* the count compared with >= in place of >
isExceededResultEarly(w, now) ==
  IF w = NoWindow \/ now >= w.resetAt THEN FALSE
  ELSE w.count + 1 >= RateLimit

isExceededResult(w, now) ==
  IF Expired(w, now) THEN FALSE
  ELSE w.count + 1 > RateLimit

Tick ==
  /\ clock < MaxClock
  /\ clock' = clock + 1
  /\ UNCHANGED <<ruleVars, syncVars, windows, winLog, shadow, handlerVars, cleanVars, telVars,
                 closeVars,
                 mwVars, cidrVars>>

\* ------------------------------------------------------------------------
\* Bbloker.Analyze, one action per check; every matcher and isExceeded
\* holds its component's lock for the length of its action
\* ------------------------------------------------------------------------
BlockUA == Decision("block", "known_bot_ua", 95)
BlockIP == Decision("block", "known_bot_ip", 90)
BlockRate == Decision("block", "rate_limit", 70)
BlockHeader(score) == Decision("block", "header_anomaly", score)
Allow == Decision("allow", "", 0)

\* a request arrives: Analyze starts
HStart(h, r) ==
  /\ hpc[h] = "idle"
  /\ nCalls < MaxCalls
  /\ nCalls' = nCalls + 1
  /\ hreq' = [hreq EXCEPT ![h] = r]
  /\ hpc' = [hpc EXCEPT ![h] = "ua"]
  /\ UNCHANGED <<ruleVars, syncVars, limVars, hnow, hscore, hdec, hobs,
                 cleanVars, telVars, closeVars,
                 mwVars, cidrVars>>

\* 1. UA check
HCheckUA(h) ==
  /\ hpc[h] = "ua"
  /\ RLock
  /\ hobs' = [hobs EXCEPT ![h].ua = current]
  /\ IF isBlockedUA(hreq[h].ua)
       THEN hdec' = [hdec EXCEPT ![h] = BlockUA] /\ hpc' = [hpc EXCEPT ![h] = "done"]
       ELSE hpc' = [hpc EXCEPT ![h] = "ip"] /\ UNCHANGED hdec
  /\ UNCHANGED <<ruleVars, syncVars, limVars, hreq, hnow, hscore, nCalls,
                 cleanVars, telVars, closeVars,
                 mwVars, cidrVars>>

\* 2. IP check
HCheckIP(h) ==
  /\ hpc[h] = "ip"
  /\ RLock
  /\ hobs' = [hobs EXCEPT ![h].ip = current]
  /\ IF isBlockedIP(extractIP(hreq[h]))
       THEN hdec' = [hdec EXCEPT ![h] = BlockIP] /\ hpc' = [hpc EXCEPT ![h] = "done"]
       ELSE hpc' = [hpc EXCEPT ![h] = "now"] /\ UNCHANGED hdec
  /\ UNCHANGED <<ruleVars, syncVars, limVars, hreq, hnow, hscore, nCalls,
                 cleanVars, telVars, closeVars,
                 mwVars, cidrVars>>

\* 3. isExceeded: now := time.Now().UnixMilli(), before rl.mu.Lock()
HReadNow(h) ==
  /\ hpc[h] = "now"
  /\ hnow' = [hnow EXCEPT ![h] = clock]
  /\ hpc' = [hpc EXCEPT ![h] = "rl"]
  /\ UNCHANGED <<ruleVars, syncVars, limVars, hreq, hscore, hdec, hobs, nCalls,
                 cleanVars, telVars, closeVars,
                 mwVars, cidrVars>>

\* 3. isExceeded: the body under rl.mu
HRateLimit(h) ==
  LET ip == extractIP(hreq[h])
      exceeded == isExceededResult(windows[ip], hnow[h])
      after == isExceededWindow(windows[ip], hnow[h])
  IN /\ hpc[h] = "rl"
     /\ windows' = [windows EXCEPT ![ip] = after]
     /\ winLog' = [winLog EXCEPT ![ip] =
                     IF after.resetAt # windows[ip].resetAt THEN <<exceeded>>
                     ELSE Append(winLog[ip], exceeded)]
     /\ shadow' = [shadow EXCEPT ![ip] = isExceededWindow(shadow[ip], hnow[h])]
     /\ hobs' = [hobs EXCEPT ![h].rl =
                   [called |-> TRUE, now |-> hnow[h], before |-> windows[ip],
                    after |-> after, res |-> exceeded,
                    ref |-> isExceededResult(shadow[ip], hnow[h])]]
     /\ IF exceeded
          THEN hdec' = [hdec EXCEPT ![h] = BlockRate] /\ hpc' = [hpc EXCEPT ![h] = "done"]
          ELSE hpc' = [hpc EXCEPT ![h] = "score"] /\ UNCHANGED hdec
     /\ UNCHANGED <<ruleVars, syncVars, clock, hreq, hnow, hscore, nCalls,
                    cleanVars, telVars, closeVars,
                 mwVars, cidrVars>>

\* 4. score := b.rules.headerAnomalyScore(headers)
HScore(h) ==
  /\ hpc[h] = "score"
  /\ RLock
  /\ hobs' = [hobs EXCEPT ![h].score = current]
  /\ hscore' = [hscore EXCEPT ![h] = headerAnomalyScore(hreq[h].headers)]
  /\ hpc' = [hpc EXCEPT ![h] = "thr"]
  /\ UNCHANGED <<ruleVars, syncVars, limVars, hreq, hnow, hdec, nCalls,
                 cleanVars, telVars, closeVars,
                 mwVars, cidrVars>>

\* the comparison with >= in place of >
atOrOverThreshold(score, threshold) == score >= threshold

\* 4. if score > b.rules.anomalyThreshold()
overThreshold(score, threshold) == score > threshold

\* 4. the comparison and its block; 5. allow
HThreshold(h) ==
  /\ hpc[h] = "thr"
  /\ RLock
  /\ hobs' = [hobs EXCEPT ![h].thr = current]
  /\ hdec' = [hdec EXCEPT ![h] =
                IF overThreshold(hscore[h], anomalyThreshold) THEN BlockHeader(hscore[h]) ELSE Allow]
  /\ hpc' = [hpc EXCEPT ![h] = "done"]
  /\ UNCHANGED <<ruleVars, syncVars, limVars, hreq, hnow, hscore, nCalls,
                 cleanVars, telVars, closeVars,
                 mwVars, cidrVars>>

\* ------------------------------------------------------------------------
\* Bbloker.Handler, after Analyze has returned
\* ------------------------------------------------------------------------
\* the 403 branch without its return: the request goes on to next
respondFallthrough(d, onBlock, fp) ==
  IF d.Action = "block"
    THEN IF onBlock THEN Out(0, d, 0, fp) ELSE Out(1, NoDecision, 403, fp)
    ELSE Out(1, NoDecision, 0, fp)

\* if decision.Action == "block": OnBlock when set, else 403; otherwise
\* next.ServeHTTP
respond(d, onBlock, fp) ==
  IF d.Action = "block"
    THEN IF onBlock THEN Out(0, d, 0, fp) ELSE Out(0, NoDecision, 403, fp)
    ELSE Out(1, NoDecision, 0, fp)

\* fp := buildFingerprint(r); go b.telemetry.push(fp); then the decision is
\* applied
HRespond(h) ==
  /\ hpc[h] = "done"
  /\ nSpawn' = nSpawn + 1
  /\ goPush' = goPush \cup {nSpawn + 1}
  /\ hout' = [hout EXCEPT ![h] = respond(hdec[h], OnBlock, nSpawn + 1)]
  /\ hpc' = [hpc EXCEPT ![h] = "resp"]
  /\ UNCHANGED <<ruleVars, syncVars, limVars, hreq, hnow, hscore, hdec, hobs, nCalls,
                 cleanVars, telVars, closeVars, OnBlock, owed, cidrVars>>

\* Analyze returns its Decision to a caller other than Handler (the method
\* is exported); the goroutine makes the next call
AnalyzeReturn(h) ==
  /\ hpc[h] = "done"
  /\ hpc' = [hpc EXCEPT ![h] = "idle"]
  /\ hreq' = [hreq EXCEPT ![h] = NoReq]
  /\ hnow' = [hnow EXCEPT ![h] = 0]
  /\ hscore' = [hscore EXCEPT ![h] = 0]
  /\ hdec' = [hdec EXCEPT ![h] = NoDecision]
  /\ hobs' = [hobs EXCEPT ![h] = NoObs]
  /\ UNCHANGED <<ruleVars, syncVars, limVars, nCalls, cleanVars, telVars, closeVars,
                 mwVars, cidrVars>>

\* the handler returns; the goroutine serves the next request
HReturn(h) ==
  /\ hpc[h] = "resp"
  /\ hpc' = [hpc EXCEPT ![h] = "idle"]
  /\ hreq' = [hreq EXCEPT ![h] = NoReq]
  /\ hnow' = [hnow EXCEPT ![h] = 0]
  /\ hscore' = [hscore EXCEPT ![h] = 0]
  /\ hdec' = [hdec EXCEPT ![h] = NoDecision]
  /\ hobs' = [hobs EXCEPT ![h] = NoObs]
  /\ hout' = [hout EXCEPT ![h] = NoOut]
  /\ UNCHANGED <<ruleVars, syncVars, limVars, nCalls, cleanVars, telVars, closeVars,
                 OnBlock, nSpawn, goPush, owed, cidrVars>>

\* ------------------------------------------------------------------------
\* rateLimiter: the cleanup goroutine
\* ------------------------------------------------------------------------
CleanTickerFire ==
  /\ cleanTick = "idle"
  /\ cleanPc # "stopped"
  /\ cleanTick' = "ready"
  /\ UNCHANGED <<ruleVars, syncVars, limVars, handlerVars, cleanPc, cleanNow,
                 telVars, closeVars,
                 mwVars, cidrVars>>

\* select: case <-ticker.C: rl.cleanup() reads now
CleanSelectTick ==
  /\ cleanPc = "select"
  /\ cleanTick = "ready"
  /\ cleanTick' = "idle"
  /\ cleanNow' = clock
  /\ cleanPc' = "sweep"
  /\ UNCHANGED <<ruleVars, syncVars, limVars, handlerVars, telVars, closeVars,
                 mwVars, cidrVars>>

\* cleanup: the loop under rl.mu
cleanup(ws, now) ==
  [k \in DOMAIN ws |-> IF ws[k] # NoWindow /\ now >= ws[k].resetAt THEN NoWindow ELSE ws[k]]

CleanSweep ==
  /\ cleanPc = "sweep"
  /\ windows' = cleanup(windows, cleanNow)
  /\ winLog' = [k \in Keys |-> IF windows'[k] = NoWindow THEN <<>> ELSE winLog[k]]
  /\ cleanPc' = "select"
  /\ UNCHANGED <<ruleVars, syncVars, clock, shadow, handlerVars, cleanNow, cleanTick,
                 telVars, closeVars,
                 mwVars, cidrVars>>

\* select: case <-done: return
CleanSelectDone ==
  /\ cleanPc = "select"
  /\ done
  /\ cleanPc' = "stopped"
  /\ UNCHANGED <<ruleVars, syncVars, limVars, handlerVars, cleanNow, cleanTick,
                 telVars, closeVars,
                 mwVars, cidrVars>>

\* ------------------------------------------------------------------------
\* telemetryClient
\* ------------------------------------------------------------------------
\* if !tc.enabled { return }, and the check left out
pushReturnsNever == FALSE
pushReturns == ~enabled

\* push, the part under tc.mu: tc.buffer = append(tc.buffer, fp); and the
\* fingerprint put in front
pushPrepend(buf, fp) == <<fp>> \o buf
pushAppend(buf, fp) == Append(buf, fp)

\* shouldFlush := len(tc.buffer) >= tc.maxBuffer; and > in place of >=
shouldFlushLate(buf) == Len(buf) > BufferSize
shouldFlush(buf) == Len(buf) >= BufferSize

\* push(fp): a no-op when disabled; else, under tc.mu, append, and go
\* tc.flush() when full
Push ==
  /\ nPush < MaxPush
  /\ pushReturns \/ tcMu = "free"
  /\ nPush' = nPush + 1
  /\ IF pushReturns
       THEN UNCHANGED <<buffer, dSwap>>
       ELSE /\ buffer' = pushAppend(buffer, nPush + 1)
            /\ dSwap' = IF shouldFlush(buffer') THEN dSwap + 1 ELSE dSwap
  /\ UNCHANGED <<ruleVars, syncVars, limVars, handlerVars, cleanVars, enabled, tcMu,
                 timerPc, timerBatch, flushTick, dSend, swapLog, outbox, closeVars,
                 mwVars, cidrVars>>

\* the detached push of a handler runs: go b.telemetry.push(fp)
HandlerPush(fp) ==
  /\ fp \in goPush
  /\ pushReturns \/ tcMu = "free"
  /\ goPush' = goPush \ {fp}
  /\ nPush' = nPush + 1
  /\ IF pushReturns
       THEN UNCHANGED <<buffer, dSwap>>
       ELSE /\ buffer' = pushAppend(buffer, fp)
            /\ dSwap' = IF shouldFlush(buffer') THEN dSwap + 1 ELSE dSwap
  /\ UNCHANGED <<ruleVars, syncVars, limVars, handlerVars, cleanVars, enabled, tcMu,
                 timerPc, timerBatch, flushTick, dSend, swapLog, outbox, closeVars,
                 OnBlock, hout, nSpawn, owed, cidrVars>>

\* flush, the part under tc.mu: batch := tc.buffer; tc.buffer = nil; and
\* the buffer left as it was
flushBatch(buf) == buf
flushRestKept(buf) == buf
flushRest(buf) == <<>>

\* flush: tc.mu.Lock() by the flush named who
flushLock(who) == who

\* flush: tc.mu.Unlock() before the batch is sent; and the unlock deferred
\* to the return of flush
flushUnlockDeferred(holder) == holder
flushUnlock(holder) == "free"

\* flush, after the lock: json.Marshal, http.NewRequest, http.DefaultClient.Do;
\* the request goes out and ends well (ok) or in a transport error
SendOutcomes == {"ok", "err"}
flushSend(batch, outcome) == Append(outbox, [events |-> batch, result |-> outcome])

FlushTickerFire ==
  /\ flushTick = "idle"
  /\ timerPc # "stopped"
  /\ flushTick' = "ready"
  /\ UNCHANGED <<ruleVars, syncVars, limVars, handlerVars, cleanVars, enabled, tcMu, buffer,
                 nPush, timerPc, timerBatch, dSwap, dSend, swapLog, outbox, closeVars,
                 mwVars, cidrVars>>

\* select: case <-ticker.C: tc.flush()
TimerSelectTick ==
  /\ timerPc = "select"
  /\ flushTick = "ready"
  /\ flushTick' = "idle"
  /\ timerPc' = "swap"
  /\ UNCHANGED <<ruleVars, syncVars, limVars, handlerVars, cleanVars, enabled, tcMu, buffer,
                 nPush, timerBatch, dSwap, dSend, swapLog, outbox, closeVars,
                 mwVars, cidrVars>>

\* flush: tc.mu.Lock()
TimerFlushLock ==
  /\ timerPc = "swap"
  /\ tcMu = "free"
  /\ tcMu' = flushLock("timer")
  /\ timerPc' = "locked"
  /\ UNCHANGED <<ruleVars, syncVars, limVars, handlerVars, cleanVars, enabled, buffer,
                 nPush, timerBatch, flushTick, dSwap, dSend, swapLog, outbox, closeVars,
                 mwVars, cidrVars>>

\* flush under tc.mu: return when empty, else swap the buffer out; Unlock
TimerFlushSwap ==
  /\ timerPc = "locked"
  /\ IF Len(buffer) = 0
       THEN /\ timerPc' = "select"
            /\ tcMu' = "free"
            /\ UNCHANGED <<buffer, timerBatch, swapLog>>
       ELSE /\ timerBatch' = flushBatch(buffer)
            /\ buffer' = flushRest(buffer)
            /\ swapLog' = Append(swapLog, timerBatch')
            /\ tcMu' = flushUnlock(tcMu)
            /\ timerPc' = "send"
  /\ UNCHANGED <<ruleVars, syncVars, limVars, handlerVars, cleanVars, enabled,
                 nPush, flushTick, dSwap, dSend, outbox, closeVars,
                 mwVars, cidrVars>>

TimerFlushSend(outcome) ==
  /\ timerPc = "send"
  /\ outbox' = flushSend(timerBatch, outcome)
  /\ timerBatch' = <<>>
  /\ timerPc' = "select"
  /\ UNCHANGED <<ruleVars, syncVars, limVars, handlerVars, cleanVars, enabled, tcMu, buffer,
                 nPush, flushTick, dSwap, dSend, swapLog, closeVars,
                 mwVars, cidrVars>>

\* select: case <-done: return
TimerSelectDone ==
  /\ timerPc = "select"
  /\ done
  /\ timerPc' = "stopped"
  /\ UNCHANGED <<ruleVars, syncVars, limVars, handlerVars, cleanVars, enabled, tcMu, buffer,
                 nPush, timerBatch, flushTick, dSwap, dSend, swapLog, outbox, closeVars,
                 mwVars, cidrVars>>

\* a detached flush (go tc.flush() of push) takes the lock
DetachedFlushLock ==
  /\ dSwap > 0
  /\ tcMu = "free"
  /\ dSwap' = dSwap - 1
  /\ tcMu' = flushLock("detached")
  /\ UNCHANGED <<ruleVars, syncVars, limVars, handlerVars, cleanVars, enabled, buffer,
                 nPush, timerPc, timerBatch, flushTick, dSend, swapLog, outbox, closeVars,
                 mwVars, cidrVars>>

\* and, under the lock, returns when the buffer is empty or swaps it out
DetachedFlushSwap ==
  /\ tcMu = "detached"
  /\ IF Len(buffer) = 0
       THEN /\ tcMu' = "free"
            /\ UNCHANGED <<buffer, dSend, swapLog>>
       ELSE /\ dSend' = dSend \cup {flushBatch(buffer)}
            /\ buffer' = flushRest(buffer)
            /\ swapLog' = Append(swapLog, flushBatch(buffer))
            /\ tcMu' = flushUnlock(tcMu)
  /\ UNCHANGED <<ruleVars, syncVars, limVars, handlerVars, cleanVars, enabled,
                 nPush, timerPc, timerBatch, flushTick, dSwap, outbox, closeVars,
                 mwVars, cidrVars>>

DetachedFlushSend(batch, outcome) ==
  /\ batch \in dSend
  /\ dSend' = dSend \ {batch}
  /\ outbox' = flushSend(batch, outcome)
  /\ UNCHANGED <<ruleVars, syncVars, limVars, handlerVars, cleanVars, enabled, tcMu, buffer,
                 nPush, timerPc, timerBatch, flushTick, dSwap, swapLog, closeVars,
                 mwVars, cidrVars>>

\* ------------------------------------------------------------------------
\* Bbloker.Close: close(b.done); b.telemetry.flush()
\* ------------------------------------------------------------------------
CloseSignal ==
  /\ closePc = "idle"
  /\ done' = TRUE
  /\ closePc' = "swap"
  /\ owed' = (1..nSpawn) \ {hout[h].fp : h \in Handlers}
  /\ UNCHANGED <<ruleVars, syncVars, limVars, handlerVars, cleanVars, telVars, closeBatch,
                 OnBlock, hout, nSpawn, goPush, cidrVars>>

CloseFlushLock ==
  /\ closePc = "swap"
  /\ tcMu = "free"
  /\ tcMu' = flushLock("close")
  /\ closePc' = "locked"
  /\ UNCHANGED <<ruleVars, syncVars, limVars, handlerVars, cleanVars, enabled, buffer,
                 nPush, timerPc, timerBatch, flushTick, dSwap, dSend, swapLog, outbox,
                 closeBatch, done, mwVars, cidrVars>>

CloseFlushSwap ==
  /\ closePc = "locked"
  /\ IF Len(buffer) = 0
       THEN /\ closePc' = "returned"
            /\ tcMu' = "free"
            /\ UNCHANGED <<buffer, closeBatch, swapLog>>
       ELSE /\ closeBatch' = flushBatch(buffer)
            /\ buffer' = flushRest(buffer)
            /\ swapLog' = Append(swapLog, closeBatch')
            /\ tcMu' = flushUnlock(tcMu)
            /\ closePc' = "send"
  /\ UNCHANGED <<ruleVars, syncVars, limVars, handlerVars, cleanVars, enabled,
                 nPush, timerPc, timerBatch, flushTick, dSwap, dSend, outbox, done,
                 mwVars, cidrVars>>

CloseFlushSend(outcome) ==
  /\ closePc = "send"
  /\ outbox' = flushSend(closeBatch, outcome)
  /\ closeBatch' = <<>>
  /\ closePc' = "returned"
  /\ UNCHANGED <<ruleVars, syncVars, limVars, handlerVars, cleanVars, enabled, tcMu, buffer,
                 nPush, timerPc, timerBatch, flushTick, dSwap, dSend, swapLog, done,
                 mwVars, cidrVars>>

\* ------------------------------------------------------------------------
\* cidrContains called on its own, on entries and addresses well-formed and
\* not
\* ------------------------------------------------------------------------
CidrBases ==
  { <<0, 0, 0, 0>>, <<20, 15, 240, 0>>, <<128, 0, 0, 0>>, <<10, 0, 0, NotANumber>>,
    <<10, 0, 0>>, <<256, 0, 0, 1>> }
CidrBits == {0, 1, 20, 32, 33, -1, NotANumber}
CidrEntries == {Cidr(b, n) : b \in CidrBases, n \in CidrBits}
CidrAddrs ==
  { <<0, 0, 0, 0>>, <<20, 15, 241, 7>>, <<20, 15, 0, 1>>, <<128, 0, 0, 1>>,
    <<10, 0, 0, 0>>, <<10, 0, 0, NotANumber>>, <<1, 2, 3, 4, 5>>, <<9, 9, 9>> }

CidrStart(c, ip) ==
  /\ cidrPc = "idle"
  /\ cidrArg' = c
  /\ ipArg' = ip
  /\ cidrPc' = "call"
  /\ UNCHANGED <<ruleVars, syncVars, limVars, handlerVars, cleanVars, telVars, closeVars,
                 mwVars, cidrRes>>

CidrCall ==
  /\ cidrPc = "call"
  /\ cidrRes' = cidrContains(cidrArg, ipArg)
  /\ cidrPc' = "ret"
  /\ UNCHANGED <<ruleVars, syncVars, limVars, handlerVars, cleanVars, telVars, closeVars,
                 mwVars, cidrArg, ipArg>>

CidrReturn ==
  /\ cidrPc = "ret"
  /\ cidrPc' = "idle"
  /\ cidrArg' = NoEntry
  /\ ipArg' = NoAddr
  /\ cidrRes' = FALSE
  /\ UNCHANGED <<ruleVars, syncVars, limVars, handlerVars, cleanVars, telVars, closeVars,
                 mwVars>>

CidrNext ==
  \/ \E c \in CidrEntries, ip \in CidrAddrs : CidrStart(c, ip)
  \/ CidrCall
  \/ CidrReturn

\* ------------------------------------------------------------------------
\* Specifications
\* ------------------------------------------------------------------------
FetchFailures == {"err", "status", "decode"}

\* the refresh goroutine before shutdown
SyncNext(served) ==
  \/ \E kind \in FetchFailures : SyncFetchFail(kind)
  \/ \E rs \in served : SyncFetchOK(rs)
  \/ SyncReadVersion
  \/ ApplyLock
  \/ ApplySetUaLower
  \/ ApplyUnlock
  \/ SyncTickerFire
  \/ SyncSelectTick

\* the steps of one call of Analyze on a request of R
AnalyzeSteps(h, R) ==
  \/ \E r \in R : HStart(h, r)
  \/ HCheckUA(h)
  \/ HCheckIP(h)
  \/ HReadNow(h)
  \/ HRateLimit(h)
  \/ HScore(h)
  \/ HThreshold(h)

\* Analyze called on its own
AnalyzeNext(H, R) ==
  \E h \in H : AnalyzeSteps(h, R) \/ AnalyzeReturn(h)

\* Analyze called by Handler
ServeNext(H, R) ==
  \E h \in H : AnalyzeSteps(h, R) \/ HRespond(h) \/ HReturn(h)

\* the cleanup goroutine before shutdown
CleanNext ==
  \/ CleanTickerFire
  \/ CleanSelectTick
  \/ CleanSweep

\* the flush goroutine and the detached flushes
FlushNext ==
  \/ FlushTickerFire
  \/ TimerSelectTick
  \/ TimerFlushLock
  \/ TimerFlushSwap
  \/ \E o \in SendOutcomes : TimerFlushSend(o)
  \/ TimerSelectDone
  \/ DetachedFlushLock
  \/ DetachedFlushSwap
  \/ \E b \in dSend, o \in SendOutcomes : DetachedFlushSend(b, o)

\* the telemetry client on its own, push called directly
TelemetryNext == Push \/ FlushNext

CloseNext ==
  \/ CloseSignal
  \/ CloseFlushLock
  \/ CloseFlushSwap
  \/ \E o \in SendOutcomes : CloseFlushSend(o)

Next ==
  \/ SyncNext(Served)
  \/ SyncSelectDone
  \/ ServeNext(Handlers, Requests)
  \/ Tick
  \/ CleanNext
  \/ CleanSelectDone
  \/ (\E fp \in goPush : HandlerPush(fp))
  \/ FlushNext
  \/ CloseNext

Spec == Init /\ [][Next]_vars

\* Config.Telemetry and Config.OnBlock left at their defaults
InitOn == Init /\ enabled /\ ~OnBlock

\* one request at a time, within one rate-limit window, against the rule
\* manager while it refreshes
EngineNext == SyncNext(Served) \/ AnalyzeNext({1}, Requests)
SpecEngine == InitOn /\ [][EngineNext]_vars

\* the rule manager and shutdown
RulesNext == SyncNext(Served) \/ SyncSelectDone \/ CloseSignal
SpecRules == InitOn /\ [][RulesNext]_vars

\* the rate limiter under concurrent requests that reach it
LimiterRequests ==
  {r \in Requests : r.ua = <<"x">> /\ r.headers["accept-encoding"] = "en"}
LimiterNext == AnalyzeNext(Handlers, LimiterRequests) \/ Tick \/ CleanNext
SpecLimiter == InitOn /\ [][LimiterNext]_vars

\* the telemetry client and shutdown
InitTel == Init /\ ~OnBlock
TelNext == TelemetryNext \/ CloseNext
SpecTelemetry == InitTel /\ [][TelNext]_vars

\* the middleware: one request at a time, its detached push, the flushes
\* and Close
MiddlewareRequests ==
  {r \in Requests : r.xff = <<>> /\ Get(r.headers, "accept-language") = "en"}
MiddlewareNext ==
  \/ ServeNext({1}, MiddlewareRequests)
  \/ (\E fp \in goPush : HandlerPush(fp))
  \/ FlushNext
  \/ CloseNext
SpecMiddleware == Init /\ [][MiddlewareNext]_vars

\* Handler on its own: the requests one at a time and their detached pushes
HandlerNext ==
  \/ ServeNext({1}, Requests)
  \/ (\E fp \in goPush : HandlerPush(fp))
  \/ DetachedFlushLock
  \/ DetachedFlushSwap
  \/ \E b \in dSend, o \in SendOutcomes : DetachedFlushSend(b, o)
SpecHandler == Init /\ [][HandlerNext]_vars

\* the endpoint serves one newer RuleSet
ServedOnce == {rs \in Served : rs.Version = 2}

\* the tasks that make network calls: the rule refresh, the flushes and Close
\* (of the refresh goroutine, its first syncOnce)
FirstSyncNext ==
  \/ \E kind \in FetchFailures : SyncFetchFail(kind)
  \/ \E rs \in ServedOnce : SyncFetchOK(rs)
  \/ SyncReadVersion
  \/ ApplyLock
  \/ ApplySetUaLower
  \/ ApplyUnlock
NetworkNext == FirstSyncNext \/ TelNext
SpecNetwork == InitTel /\ [][NetworkNext]_vars

\* cidrContains on its own
SpecCidr == InitOn /\ [][CidrNext]_vars

\* Analyze under concurrent requests of every kind while the clock runs, the
\* rules left as constructed
AnalyzeClockNext == AnalyzeNext(Handlers, Requests) \/ Tick
SpecAnalyze == InitOn /\ [][AnalyzeClockNext]_vars

\* ------------------------------------------------------------------------
\* C1. Analyze returns the decision of the first matching check, in the
\* order UA, IP, rate limit, header anomaly, allow.  The matches are
\* recomputed from the RuleSet each check read, not from the caches.
\* ------------------------------------------------------------------------
UAListed(rs, ua) ==
  \E i \in 1..Len(rs.BlockedUAs) : Contains(ToLower(ua), ToLower(rs.BlockedUAs[i]))

IPListed(rs, ip) ==
  \E i \in 1..Len(rs.BlockedIPs) : cidrContains(rs.BlockedIPs[i], ip)

RECURSIVE WeightSum(_, _, _)
WeightSum(rs, headers, i) ==
  IF i = 0 THEN 0
  ELSE LET hp == rs.HeaderPatterns[i]
       IN (IF ~Compile(hp.Pattern).nil /\ Get(headers, hp.Name) \in Compile(hp.Pattern).lang
           THEN hp.Weight ELSE 0)
          + WeightSum(rs, headers, i - 1)

AnomalyScore(rs, headers) == WeightSum(rs, headers, Len(rs.HeaderPatterns))

FirstMatch(h) ==
  LET o == hobs[h]
      r == hreq[h]
  IN IF UAListed(o.ua, r.ua) THEN Decision("block", "known_bot_ua", 95)
     ELSE IF IPListed(o.ip, extractIP(r)) THEN Decision("block", "known_bot_ip", 90)
     ELSE IF o.rl.res THEN Decision("block", "rate_limit", 70)
     ELSE IF AnomalyScore(o.score, r.headers) > o.thr.AnomalyThreshold
       THEN Decision("block", "header_anomaly", AnomalyScore(o.score, r.headers))
     ELSE Decision("allow", "", 0)

VersionStep ==
  /\ current'.Version >= current.Version
  /\ current' # current => current' = syncRs /\ syncRs.Version > current.Version
  /\ (syncPc = "readver" /\ syncPc' # "readver") =>
       IF syncRs.Version <= current.Version
         THEN UNCHANGED ruleVars /\ syncPc' = "select"
         ELSE syncPc' = "apply"
  /\ (syncPc = "locked2" /\ syncPc' # "locked2") =>
       /\ current' = syncRs
       /\ uaLower' = LowerAll(syncRs.BlockedUAs)
       /\ headerRe' = CompileAll(syncRs.HeaderPatterns)

\* C3: versions only grow, and only a strictly newer RuleSet is applied
RuleVersionMonotone == (current.Version >= 1) /\ [][VersionStep]_vars

\* after an upgrade, a fetch of an older RuleSet was ignored
RuleVersionWitness ==
  /\ syncPc = "select"
  /\ syncRes = "ok"
  /\ current.Version = 3
  /\ syncRs.Version = 2

\* ------------------------------------------------------------------------
\* C4. Whenever a matcher reads, the caches are the ones derived from the
\* active RuleSet, entry by entry.
\* ------------------------------------------------------------------------
CachesDerived ==
  /\ Len(uaLower) = Len(current.BlockedUAs)
  /\ Len(headerRe) = Len(current.HeaderPatterns)
  /\ \A i \in 1..Len(uaLower) : uaLower[i] = ToLower(current.BlockedUAs[i])
  /\ \A i \in 1..Len(headerRe) : headerRe[i] = Compile(current.HeaderPatterns[i].Pattern)

MatcherStep(h) == hpc[h] \in {"ua", "ip", "score", "thr"} /\ hpc'[h] # hpc[h]

\* C4: no matcher call and no lock-free state sees mismatched caches
MatchersSeeDerivedCaches ==
  /\ [](rmMu = "free" => CachesDerived)
  /\ [][\A h \in Handlers : MatcherStep(h) => CachesDerived]_vars

\* a matcher is about to read while applyRules is half-way
MatchersSeeDerivedCachesWitness ==
  /\ rmMu = "w"
  /\ ~CachesDerived
  /\ hpc[1] \in {"ua", "score"}

\* ------------------------------------------------------------------------
\* C5. A failed fetch changes nothing of the rule manager, and the loop goes
\* back to its select, where the next tick starts another fetch.
\* ------------------------------------------------------------------------
FetchFailStep ==
  /\ (syncPc = "fetch" /\ syncPc' # "fetch" /\ syncRes' # "ok") =>
       /\ UNCHANGED ruleVars
       /\ syncPc' = "select"
  /\ (syncPc = "select" /\ syncTick = "ready" /\ syncTick' = "idle") => syncPc' = "fetch"

\* C5: failures leave the rules alone and the loop alive
FetchFailureKeepsRules == [][FetchFailStep]_vars

\* after an upgrade a fetch failed, and the next fetch is under way
FetchFailureWitness ==
  /\ syncPc = "fetch"
  /\ syncRes \in FetchFailures
  /\ current.Version > 1

\* ------------------------------------------------------------------------
\* Telemetry: where the fingerprints are
\* ------------------------------------------------------------------------
RECURSIVE Flatten(_)
Flatten(batches) ==
  IF batches = <<>> THEN <<>> ELSE Head(batches) \o Flatten(Tail(batches))

Pushed == IF enabled THEN nPush ELSE 0

Count(seq, x) == Cardinality({i \in 1..Len(seq) : seq[i] = x})

\* flushes that hold a batch and have not sent it yet
Sending ==
  (IF timerPc = "send" THEN 1 ELSE 0) + (IF closePc = "send" THEN 1 ELSE 0)
    + Cardinality(dSend)

RECURSIVE CountIn(_, _)
CountIn(batches, x) ==
  IF batches = {} THEN 0
  ELSE LET b == CHOOSE c \in batches : TRUE
       IN Count(b, x) + CountIn(batches \ {b}, x)

\* how many times fingerprint x is held by a flush that is sending
Held(x) == Count(timerBatch, x) + Count(closeBatch, x) + CountIn(dSend, x)

\* how many times fingerprint x went out
Sent(x) == Count(Flatten([i \in 1..Len(outbox) |-> outbox[i].events]), x)

InBuffer(x) == Count(buffer, x) > 0

OnePlace ==
  \A x \in 1..Pushed : Count(buffer, x) + Held(x) + Sent(x) = 1

\* C7: one place per fingerprint, and the buffer only ever gains the
\* fingerprint of a new push
FingerprintOnePlace ==
  /\ []OnePlace
  /\ [][\A x \in 1..MaxPush : (~InBuffer(x) /\ InBuffer(x)') => x = nPush + 1]_vars

\* a detached flush holds a batch while a later push sits in the buffer,
\* and a send has failed
FingerprintOnePlaceWitness ==
  /\ dSend # {}
  /\ buffer # <<>>
  /\ \E i \in 1..Len(outbox) : outbox[i].result = "err"

\* ------------------------------------------------------------------------
\* C8. A push that fills the buffer is followed by a detached flush that
\* empties it, and the push does not flush itself.
\* ------------------------------------------------------------------------
PushStep ==
  nPush' # nPush =>
    /\ swapLog' = swapLog
    /\ outbox' = outbox
    /\ (enabled /\ Len(buffer') >= BufferSize) => dSwap' = dSwap + 1

\* C8: with the detached flush scheduled fairly and every holder of tc.mu
\* releasing it, and nothing else assumed of the timer or of Close
FullBufferFlushed ==
  /\ \A x \in 1..MaxPush :
       (InBuffer(x) /\ Len(buffer) >= BufferSize) ~> ~InBuffer(x)
  /\ [][PushStep]_vars

\* a detached flush holds a batch; no timer flush ran and Close was not called
FullBufferFlushedWitness ==
  /\ dSend # {}
  /\ Len(swapLog) = 1
  /\ timerPc = "select"
  /\ flushTick = "idle"
  /\ closePc = "idle"

\* a flush that holds tc.mu goes on to release it
LockReleased ==
  /\ WF_vars(TimerFlushSwap)
  /\ WF_vars(DetachedFlushSwap)
  /\ WF_vars(CloseFlushSwap)

SpecTelemetryFair ==
  InitTel /\ [][TelNext]_vars /\ WF_vars(DetachedFlushLock) /\ LockReleased

\* ------------------------------------------------------------------------
\* C9. Telemetry disabled: nothing is buffered, no goroutine, no request.
\* ------------------------------------------------------------------------
\* C9: the disabled client stays empty and silent
DisabledIsInert ==
  ~enabled =>
    /\ buffer = <<>>
    /\ timerPc = "none"
    /\ flushTick = "none"
    /\ dSwap = 0
    /\ dSend = {}
    /\ swapLog = <<>>
    /\ outbox = <<>>
    /\ closePc # "send"

\* disabled, after pushes and a Close that has returned
DisabledIsInertWitness ==
  /\ ~enabled
  /\ nPush = MaxPush
  /\ closePc = "returned"

\* ------------------------------------------------------------------------
\* C10. After Close has closed done, the three loops terminate.
\* ------------------------------------------------------------------------
LivePushes == 1

ShutdownNext ==
  \/ SyncNext(ServedOnce)
  \/ SyncSelectDone
  \/ CleanNext
  \/ CleanSelectDone
  \/ (nPush < LivePushes /\ Push)
  \/ FlushTickerFire
  \/ TimerSelectTick
  \/ TimerFlushLock
  \/ TimerFlushSwap
  \/ \E o \in SendOutcomes : TimerFlushSend(o)
  \/ TimerSelectDone
  \/ CloseNext

\* every goroutine keeps running, a network call returns, and a select
\* with done closed does not pick the ticker for ever
ShutdownFairness ==
  /\ WF_vars((\E kind \in FetchFailures : SyncFetchFail(kind))
               \/ (\E rs \in ServedOnce : SyncFetchOK(rs)))
  /\ WF_vars(SyncReadVersion \/ ApplyLock \/ ApplySetUaLower \/ ApplyUnlock)
  /\ SF_vars(SyncSelectDone)
  /\ WF_vars(TimerFlushLock \/ TimerFlushSwap \/ (\E o \in SendOutcomes : TimerFlushSend(o)))
  /\ WF_vars(CloseFlushSwap)
  /\ SF_vars(TimerSelectDone)
  /\ WF_vars(CleanSweep)
  /\ SF_vars(CleanSelectDone)

SpecShutdown == InitTel /\ [][ShutdownNext]_vars /\ ShutdownFairness

LoopsStopped ==
  /\ syncPc = "stopped"
  /\ cleanPc = "stopped"
  /\ timerPc \in {"stopped", "none"}

CloseFlushesRemaining ==
  closePc = "returned" => \A i \in 1..Len(buffer) : buffer[i] \notin owed

\* ------------------------------------------------------------------------
\* C12. Handler does with each request what Analyze decided: next once on
\* allow; on block never next, and OnBlock with the Decision when set, else
\* status 403; and one fingerprint per request goes to the telemetry client.
\* ------------------------------------------------------------------------
Responded == {h \in Handlers : hpc[h] = "resp"}
InAnalyze == {h \in Handlers : hpc[h] \notin {"idle", "resp"}}

\* C12: the outcome of every handler that has responded, and the
\* fingerprints built, pending and pushed
HandlerOutcome ==
  /\ \A h \in Responded :
       LET d == hdec[h]
           o == hout[h]
       IN /\ d = FirstMatch(h)
          /\ d.Action \in {"allow", "block"}
          /\ d.Action = "allow" => o.next = 1 /\ o.onBlock = NoDecision /\ o.status = 0
          /\ (d.Action = "block" /\ OnBlock) =>
               o.next = 0 /\ o.onBlock = d /\ o.status = 0
          /\ (d.Action = "block" /\ ~OnBlock) =>
               o.next = 0 /\ o.onBlock = NoDecision /\ o.status = 403
          /\ o.fp \in 1..nSpawn
          /\ \A g \in Responded : g # h => hout[g].fp # o.fp
  /\ \A h \in Handlers \ Responded : hout[h] = NoOut
  /\ nSpawn = nCalls - Cardinality(InAnalyze)
  /\ goPush \subseteq 1..nSpawn
  /\ nPush + Cardinality(goPush) = nSpawn

\* a request over the rate limit is handed to OnBlock, another is refused
\* with 403, while an earlier fingerprint is still waiting for its push
HandlerOutcomeWitness ==
  /\ hpc[1] = "resp"
  /\ hdec[1].Action = "block"
  /\ IF OnBlock THEN hout[1].onBlock = BlockRate ELSE hout[1].status = 403
  /\ hdec[1].Reason = "rate_limit"
  /\ 1 \in goPush
  /\ nPush = 1

\* ------------------------------------------------------------------------
\* C13. For a CIDR a.b.c.d/n with n in 0..32 and an IPv4 address x,
\* cidrContains is true exactly when the top n bits agree (also for base
\* 0.0.0.0 and for n = 0); it is false when the address, the base or the
\* prefix length is unparsable or the prefix length is outside 0..32.
\* ------------------------------------------------------------------------
\* a dotted quad of four numbers 0..255
IsIPv4(ip) ==
  /\ Len(ip) = 4
  /\ \A i \in 1..4 : ip[i] # NotANumber /\ ip[i] >= 0 /\ ip[i] <= 255

\* bit i of the address, 1 the most significant of the 32
Bit(ip, i) == (ip[((i - 1) \div 8) + 1] \div (2 ^ (7 - ((i - 1) % 8)))) % 2

TopBitsAgree(a, x, n) == \A i \in 1..n : Bit(a, i) = Bit(x, i)

CidrExpected(c, ip) ==
  /\ IsIPv4(c.ip)
  /\ IsIPv4(ip)
  /\ c.bits # NotANumber
  /\ c.bits >= 0
  /\ c.bits <= 32
  /\ TopBitsAgree(c.ip, ip, c.bits)

\* C13: every result of cidrContains on an entry with a slash
CidrContainsTopBits ==
  (cidrPc = "ret" /\ cidrArg.slash) => (cidrRes = CidrExpected(cidrArg, ipArg))

\* ------------------------------------------------------------------------
\* C14. A task inside a network call (rule fetch, telemetry send) holds no
\* lock, so a handler that needs a lock never waits for a network call.
\* ------------------------------------------------------------------------
InNetworkCall ==
  syncPc = "fetch" \/ timerPc = "send" \/ closePc = "send" \/ dSend # {}

\* the holder of each lock is inside its critical section
HoldersInCriticalSection ==
  /\ rmMu = "w" => syncPc \in {"locked", "locked2"}
  /\ tcMu = "timer" => timerPc = "locked"
  /\ tcMu = "close" => closePc = "locked"
  /\ tcMu \in {"free", "timer", "close", "detached"}

\* a step that starts a send is the step that released tc.mu
SendStep ==
  (\/ (timerPc # "send" /\ timerPc' = "send")
   \/ (closePc # "send" /\ closePc' = "send")
   \/ (dSend' # dSend /\ dSend \subseteq dSend'))
    => (tcMu # "free" /\ tcMu' = "free")

\* C14: during a fetch rm.mu is free; a flush that sends has released
\* tc.mu, and whoever holds a lock is not in a network call
NoLockAcrossNetworkCall ==
  /\ [](syncPc = "fetch" => rmMu = "free")
  /\ []HoldersInCriticalSection
  /\ [][SendStep]_vars

\* a fetch, a timer send and a detached send are in flight while Close's
\* flush holds tc.mu
NoLockAcrossNetworkCallWitness ==
  /\ syncPc = "fetch"
  /\ timerPc = "send"
  /\ dSend # {}
  /\ tcMu = "close"

\* ------------------------------------------------------------------------
\* C15. Once done is closed no loop starts another tick action: no rule
\* fetch, no timer flush and no cleanup begins, also when a tick is pending.
\* ------------------------------------------------------------------------
TickActionStarts ==
  \/ (syncPc = "select" /\ syncPc' = "fetch")
  \/ (timerPc = "select" /\ timerPc' = "swap")
  \/ (cleanPc = "select" /\ cleanPc' = "sweep")

\* C15: with done closed, no select takes its ticker case
NoTickAfterSignal == [][done => ~TickActionStarts]_vars

\* ------------------------------------------------------------------------
\* C16. A RuleSet with header patterns that do not compile is applied in
\* full; such a pattern adds 0 to every score, and every other pattern adds
\* its weight exactly when its regex matches the value the normalized header
\* map has under its name (the empty string when it has none).
\* ------------------------------------------------------------------------
\* the regular expressions of the model, by what they mean
PatternCompiles(p) == p \in {"^$", "^\\*\\/\\*$", "."}

PatternMatches(p, v) ==
  CASE p = "^$" -> v = ""
    [] p = "^\\*\\/\\*$" -> v = "*/*"
    [] p = "." -> v # ""
    [] OTHER -> FALSE

RECURSIVE ExpectedScore(_, _, _)
ExpectedScore(hps, headers, i) ==
  IF i = 0 THEN 0
  ELSE (IF PatternCompiles(hps[i].Pattern)
           /\ PatternMatches(hps[i].Pattern, Get(headers, hps[i].Name))
        THEN hps[i].Weight ELSE 0)
       + ExpectedScore(hps, headers, i - 1)

HasBadPattern(rs) ==
  \E i \in 1..Len(rs.HeaderPatterns) : ~PatternCompiles(rs.HeaderPatterns[i].Pattern)

\* C16: what applyRules leaves, what a fetch of a newer RuleSet leaves, and
\* every score computed
BadRegexSkipped ==
  /\ rmMu = "free" =>
       /\ current \in Served \cup {defaultRules}
       /\ uaLower = LowerAll(current.BlockedUAs)
       /\ Len(headerRe) = Len(current.HeaderPatterns)
       /\ \A i \in 1..Len(headerRe) :
            headerRe[i].nil <=> ~PatternCompiles(current.HeaderPatterns[i].Pattern)
  /\ (syncPc = "select" /\ syncRes = "ok") => current.Version >= syncRs.Version
  /\ \A h \in Handlers :
       hpc[h] = "thr" =>
         hscore[h] = ExpectedScore(hobs[h].score.HeaderPatterns, hreq[h].headers,
                                   Len(hobs[h].score.HeaderPatterns))

\* under a RuleSet whose first pattern does not compile, a request that
\* carries that pattern's header scores the weight of the second pattern
BadRegexSkippedWitness ==
  /\ hpc[1] = "thr"
  /\ HasBadPattern(hobs[1].score)
  /\ current = hobs[1].score
  /\ ~PatternCompiles(current.HeaderPatterns[1].Pattern)
  /\ Get(hreq[1].headers, current.HeaderPatterns[1].Name) # ""
  /\ hscore[1] = current.HeaderPatterns[2].Weight

\* ------------------------------------------------------------------------
\* C17. The telemetry buffer never holds more than BufferSize fingerprints,
\* under any interleaving of pushes and flushes.
\* ------------------------------------------------------------------------
\* C17: BufferSize bounds the buffer
BufferBounded == Len(buffer) <= BufferSize

\* ------------------------------------------------------------------------
\* C18. Every Analyze call decides against one RuleSet: the UA check, the
\* IP check, the score and the threshold come from the same version, also
\* when a refresh replaces the RuleSet during the call.
\* ------------------------------------------------------------------------
\* the RuleSets the checks of handler h have read so far
RuleSetsRead(h) ==
  {hobs[h].ua, hobs[h].ip, hobs[h].score, hobs[h].thr} \ {NoRules}

\* C18: one version per call
AnalyzeOneSnapshot ==
  \A h \in Handlers :
    hpc[h] = "done" => \A a, b \in RuleSetsRead(h) : a.Version = b.Version

\* ------------------------------------------------------------------------
\* C19. Cleanup is invisible: every isExceeded call returns what it returns
\* in the same sequence of calls with no cleanup; and cleanup removes only
\* keys whose window has expired, never one that is still counting.
\* ------------------------------------------------------------------------
\* an isExceeded call returns
ExceededReturns(h) == hpc[h] = "rl" /\ hpc'[h] # "rl"

\* cleanup runs
Sweeps == cleanPc = "sweep" /\ cleanPc' # "sweep"

CleanupStep ==
  /\ \A h \in Handlers : ExceededReturns(h) => hobs'[h].rl.res = hobs'[h].rl.ref
  /\ Sweeps =>
       \A k \in Keys :
         windows'[k] # windows[k] =>
           windows'[k] = NoWindow /\ cleanNow >= windows[k].resetAt

\* C19: results as with no cleanup, and only expired keys removed
CleanupInvisible == [][CleanupStep]_vars

\* ------------------------------------------------------------------------
\* C20. An Analyze call blocked by the UA check or the IP check leaves the
\* window map as it is; a call that passes both checks changes the window of
\* its own client IP, to count + 1 or to a fresh window, also when it is then
\* blocked for rate limit or header anomaly, and no other key's window.
\* ------------------------------------------------------------------------
\* the handler takes a step; the step is its call of isExceeded; the step
\* ends its call of Analyze
Steps(h) == hpc'[h] # hpc[h]
CountsRequest(h) == hpc[h] = "rl" /\ Steps(h)
Decides(h) == hpc'[h] = "done" /\ Steps(h)

\* the window of key k after one more request at time now
Counted(w, now) ==
  IF w # NoWindow /\ now < w.resetAt
    THEN [count |-> w.count + 1, resetAt |-> w.resetAt]
    ELSE [count |-> 1, resetAt |-> now + RateLimitWindow]

AnalyzeFrameStep ==
  \A h \in Handlers :
    LET ip == extractIP(hreq[h])
    IN /\ (Steps(h) /\ ~CountsRequest(h)) => windows' = windows
       /\ CountsRequest(h) =>
            /\ windows'[ip] = Counted(windows[ip], hnow[h])
            /\ windows'[ip] # windows[ip]
            /\ \A k \in Keys \ {ip} : windows'[k] = windows[k]
       /\ Decides(h) =>
            IF hdec'[h].Reason \in {"known_bot_ua", "known_bot_ip"}
              THEN ~hobs'[h].rl.called /\ windows' = windows
              ELSE /\ hobs'[h].rl.called
                   /\ hobs'[h].rl.after = Counted(hobs'[h].rl.before, hobs'[h].rl.now)
                   /\ hdec'[h].Reason = "rate_limit" =>
                        windows'[ip].count = windows[ip].count + 1

\* C20: the frame of Analyze on the window map
AnalyzeFrame == [][AnalyzeFrameStep]_vars

\* one call blocked on the IP check has left no window for its client while
\* a concurrent call, blocked for header anomaly, has counted its own
\* client's request in a window started after the clock moved
AnalyzeFrameWitness ==
  \E h, g \in Handlers :
    /\ hpc[h] = "done" /\ hpc[g] = "done"
    /\ hdec[h].Reason = "known_bot_ip"
    /\ windows[extractIP(hreq[h])] = NoWindow
    /\ hdec[g].Reason = "header_anomaly"
    /\ windows[extractIP(hreq[g])].count = 1
    /\ windows[extractIP(hreq[g])].resetAt > RateLimitWindow

====
